---- MODULE Spec2Model ----
(***************************************************************************)
(* Gravitational n-body visualisation: the Euler script (src/nbody.py) and *)
(* the RK4 script (src/scripts/grav_nbody_rk4.py).                         *)
(*                                                                         *)
(* Numbers.  The scripts compute in numpy float64.  The model computes in  *)
(* exact rational arithmetic, so that the algebraic statements made about  *)
(* the integrators are decided exactly.  A number is a pair <<n, d>>:      *)
(*    d > 0        the rational n/d in lowest terms                        *)
(*    <<1, 0>>     +inf        <<-1, 0>>   -inf        <<0, 0>>   nan      *)
(*    <<0, -1>>    a value the model cannot carry exactly: a numerator or  *)
(*                 denominator beyond Range, or an irrational square root  *)
(* The non-finite values follow numpy: x/0 is inf or nan, they propagate.  *)
(* A step whose result holds an uncarried value is not explored.           *)
(*                                                                         *)
(* Units.  The physical constants of the scripts (6.957e8, 2e30, 6.67e-11, *)
(* ...) do not fit the arithmetic of the model checker; the model keeps    *)
(* every constant and every conversion, with small values.                 *)
(***************************************************************************)
EXTENDS Integers, Sequences, FiniteSets, TLC

\* ------------------------------------------------------------- bounds
\* Largest numerator or denominator carried exactly.
Range == 1000000000
\* Number of bodies in a list.
MaxBodies == 2
\* Initial coordinates are 0..MaxCoord (in input units).
MaxCoord == 2
\* Initial velocities are -MaxVel..MaxVel (in km/s).
MaxVel == 1
\* Masses are 1..MaxMass (in solar masses).
MaxMass == 2
\* Whole steps explored per run.
MaxSteps == 2

\* ------------------------------------------------------------- float64
\* the one element of a singleton set; binding a value through a singleton
\* set computes it once, as the script computes an operand or a local once
The(S) == CHOOSE x \in S : TRUE

Abs(x) == IF x < 0 THEN -x ELSE x

Sgn(x) == IF x < 0 THEN -1 ELSE IF x = 0 THEN 0 ELSE 1

RECURSIVE GCD(_, _)
GCD(a, b) == IF b = 0 THEN a ELSE GCD(b, a % b)

NaN == <<0, 0>>

Inf == <<1, 0>>

Lost == <<0, -1>>

IsLost(x) == x[2] < 0

IsFinite(x) == x[2] > 0

\* a * b stays within Range
Fits(a, b) == b = 0 \/ Abs(a) <= Range \div Abs(b)

\* the number n/d, n and d within Range, d >= 0
Mk(n, d) ==
    IF d = 0 THEN <<Sgn(n), 0>>
    ELSE IF n = 0 THEN <<0, 1>>
    ELSE LET g == GCD(Abs(n), d) IN <<n \div g, d \div g>>

Q(n) == <<n, 1>>

Zero == <<0, 1>>

Neg(x) == IF IsLost(x) THEN Lost ELSE <<-x[1], x[2]>>

RNeg(x) == The({Neg(a) : a \in {x}})

Add(x, y) ==
    IF IsLost(x) \/ IsLost(y) THEN Lost
    ELSE IF x[2] = 0 /\ y[2] = 0
         THEN IF x[1] = y[1] THEN x ELSE NaN
    ELSE IF x[2] = 0 THEN x
    ELSE IF y[2] = 0 THEN y
    ELSE LET g == GCD(x[2], y[2])
             a == y[2] \div g
             b == x[2] \div g
         IN  IF Fits(x[1], a) /\ Fits(y[1], b) /\ Fits(x[2], a)
             THEN LET n == x[1] * a + y[1] * b
                      r == Mk(n, x[2] * a)
                  IN  IF Abs(r[1]) <= Range THEN r ELSE Lost
             ELSE Lost

RAdd(x, y) == The({Add(a, b) : a \in {x}, b \in {y}})

RSub(x, y) == RAdd(x, RNeg(y))

Mul(x, y) ==
    IF IsLost(x) \/ IsLost(y) THEN Lost
    ELSE IF x[2] = 0 \/ y[2] = 0 THEN <<Sgn(x[1]) * Sgn(y[1]), 0>>
    ELSE IF x[1] = 0 \/ y[1] = 0 THEN Zero
    ELSE LET g1 == GCD(Abs(x[1]), y[2])
             g2 == GCD(Abs(y[1]), x[2])
             n1 == x[1] \div g1
             n2 == y[1] \div g2
             d1 == x[2] \div g2
             d2 == y[2] \div g1
         IN  IF Fits(n1, n2) /\ Fits(d1, d2)
             THEN <<n1 * n2, d1 * d2>>
             ELSE Lost

RMul(x, y) == The({Mul(a, b) : a \in {x}, b \in {y}})

\* 1/x; 1/0 is inf (numpy), the sign of a zero is not kept
Inv(x) ==
    IF IsLost(x) THEN Lost
    ELSE IF x[2] = 0 THEN (IF x[1] = 0 THEN NaN ELSE Zero)
    ELSE IF x[1] = 0 THEN Inf
    ELSE <<Sgn(x[1]) * x[2], Abs(x[1])>>

RInv(x) == The({Inv(a) : a \in {x}})

RDiv(x, y) == RMul(x, RInv(y))

RECURSIVE Newton(_, _)
Newton(n, x) ==
    LET y == (x + n \div x) \div 2 IN IF y >= x THEN x ELSE Newton(n, y)

\* floor of the square root of n >= 0
ISqrt(n) == IF n = 0 THEN 0 ELSE Newton(n, n)

IsSquare(n) == LET r == ISqrt(n) IN r * r = n

\* np.sqrt: exact on squares of rationals, nan below zero
Sqrt(x) ==
    IF IsLost(x) THEN Lost
    ELSE IF x[2] = 0 THEN (IF x[1] = 1 THEN Inf ELSE NaN)
    ELSE IF x[1] < 0 THEN NaN
    ELSE IF IsSquare(x[1]) /\ IsSquare(x[2])
         THEN <<ISqrt(x[1]), ISqrt(x[2])>>
         ELSE Lost

RSqrt(x) == The({Sqrt(a) : a \in {x}})

RSquare(x) == The({Mul(a, a) : a \in {x}})

\* ------------------------------------------------------------- vectors
\* numpy arrays (RK4 script, three components) and Python lists (Euler
\* script, two components) of float64
VAdd(u, v) ==
    The({IF Len(a) = 2
         THEN <<Add(a[1], b[1]), Add(a[2], b[2])>>
         ELSE <<Add(a[1], b[1]), Add(a[2], b[2]), Add(a[3], b[3])>>
         : a \in {u}, b \in {v}})

VScale(c, v) ==
    The({IF Len(b) = 2
         THEN <<Mul(a, b[1]), Mul(a, b[2])>>
         ELSE <<Mul(a, b[1]), Mul(a, b[2]), Mul(a, b[3])>>
         : a \in {c}, b \in {v}})

VSub(u, v) == VAdd(u, VScale(Q(-1), v))

VDiv(v, c) == VScale(RInv(c), v)

RECURSIVE SumSquares(_, _)
SumSquares(v, k) ==
    IF k = 0 THEN Zero ELSE RAdd(SumSquares(v, k - 1), RSquare(v[k]))

\* np.linalg.norm
VNorm(v) == RSqrt(SumSquares(v, Len(v)))

\* np.zeros(3)
zeros3 == <<Zero, Zero, Zero>>

VCarried(v) == \A k \in 1..Len(v) : ~IsLost(v[k])

VFinite(v) == \A k \in 1..Len(v) : IsFinite(v[k])

\* ------------------------------------------------------------- constants
\* src/nbody.py, lines 9-13 (values scaled, see the head of the module)
R_sun == 2

M_sun == 8

year == 4

grav_constant == 1

km == 2

max_cycles == 100000

\* 24 * 3600, the default time step of the Euler script
DefaultTimeStep == 2

\* the module `constants` imported by the RK4 script (values scaled)
XRSUN == 2

XKM == 2

XMSUN == 8

XG == 1

XDAY == 10

XYR == 4

\* ------------------------------------------------------------- RK4 script
\* Particle.__init__
Particle(init_pos, init_vel, mass, rad, col) ==
    [pos |-> VScale(Q(XRSUN), init_pos),
     vel |-> VScale(Q(XKM), init_vel),
     mas |-> RMul(mass, Q(XMSUN)),
     rad |-> rad,
     col |-> col]

\* Particle.dist_to
dist_to(self, other) == VNorm(VSub(self.pos, other.pos))

\* one pass of the loop body of Particle.acceleration, for p1 = particleList[k]
AccelerationTerm(particleList, s, position, k) ==
    LET self == particleList[s]
        p1 == particleList[k]
    IN  The({LET dsquared == RSquare(dist)
                 Force == RDiv(RMul(RMul(Q(XG), self.mas), p1.mas), dsquared)
             IN  The({VScale(c, VDiv(delta, dist))
                      : c \in {RDiv(Force, self.mas)}})
             : delta \in {VSub(p1.pos, position)},
               dist \in {dist_to(self, p1)}})

\* Particle.acceleration without its test `p1 is not self`
RECURSIVE AccelerationLoopSelf(_, _, _, _)
AccelerationLoopSelf(particleList, s, position, k) ==
    IF k = 0 THEN zeros3
    ELSE VAdd(AccelerationLoopSelf(particleList, s, position, k - 1),
              AccelerationTerm(particleList, s, position, k))

\* the value of a after the first k passes of the loop
RECURSIVE AccelerationLoop(_, _, _, _)
AccelerationLoop(particleList, s, position, k) ==
    IF k = 0 THEN zeros3
    ELSE LET a == AccelerationLoop(particleList, s, position, k - 1)
         IN  IF k # s
             THEN VAdd(a, AccelerationTerm(particleList, s, position, k))
             ELSE a

\* Particle.acceleration, self = particleList[s]
acceleration(particleList, s, position) ==
    AccelerationLoop(particleList, s, position, Len(particleList))

\* rk4 with its fourth acceleration taken at kp4
rk4_step4_at_kp4(particleList, s, dt, ka1, ka2, ka3) ==
    LET particle == particleList[s]
        half == RMul(<<1, 2>>, dt)
        sixth == RMul(<<1, 6>>, dt)
        kv1 == particle.vel
        kp1 == particle.pos
        kv2 == VAdd(kv1, VScale(half, ka1))
        kp2 == VAdd(kp1, VScale(half, kv2))
        kv3 == VAdd(kv1, VScale(half, ka2))
        kp3 == VAdd(kp1, VScale(half, kv3))
        kv4 == VAdd(kv1, VScale(dt, ka3))
        kp4 == VAdd(kp1, VScale(dt, kv4))
    IN  The({[kp |-> <<kp1, kp2, kp3, kp4>>,
              kv |-> <<kv1, kv2, kv3, kv4>>,
              ka |-> <<ka1, ka2, ka3, ka4>>,
              new_vel |-> VAdd(kv1, VScale(sixth,
                            VAdd(VAdd(ka1, VScale(Q(2), VAdd(ka2, ka3))), ka4))),
              new_pos |-> VAdd(kp1, VScale(sixth,
                            VAdd(VAdd(kv1, VScale(Q(2), VAdd(kv2, kv3))), kv4)))]
             : ka4 \in {acceleration(particleList, s, kp4)}})

\* rk4, lines 155-164: step 4 and the final position and velocity, from the
\* accelerations of the first three steps
rk4_step4(particleList, s, dt, ka1, ka2, ka3) ==
    LET particle == particleList[s]
        half == RMul(<<1, 2>>, dt)
        sixth == RMul(<<1, 6>>, dt)
        kv1 == particle.vel
        kp1 == particle.pos
        kv2 == VAdd(kv1, VScale(half, ka1))
        kp2 == VAdd(kp1, VScale(half, kv2))
        kv3 == VAdd(kv1, VScale(half, ka2))
        kp3 == VAdd(kp1, VScale(half, kv3))
        kv4 == VAdd(kv1, VScale(dt, ka3))
        kp4 == VAdd(kp1, VScale(dt, kv4))
    IN  The({[kp |-> <<kp1, kp2, kp3, kp4>>,
              kv |-> <<kv1, kv2, kv3, kv4>>,
              ka |-> <<ka1, ka2, ka3, ka4>>,
              new_vel |-> VAdd(kv1, VScale(sixth,
                            VAdd(VAdd(ka1, VScale(Q(2), VAdd(ka2, ka3))), ka4))),
              new_pos |-> VAdd(kp1, VScale(sixth,
                            VAdd(VAdd(kv1, VScale(Q(2), VAdd(kv2, kv3))), kv4)))]
             : ka4 \in {acceleration(particleList, s, kp3)}})

\* rk4, lines 150-153: step 3
rk4_step3(particleList, s, dt, ka1, ka2) ==
    LET particle == particleList[s]
        half == RMul(<<1, 2>>, dt)
        kv1 == particle.vel
        kp1 == particle.pos
        kv3 == VAdd(kv1, VScale(half, ka2))
        kp3 == VAdd(kp1, VScale(half, kv3))
    IN  The({rk4_step4(particleList, s, dt, ka1, ka2, ka3)
             : ka3 \in {acceleration(particleList, s, kp3)}})

\* rk4, lines 145-148: step 2
rk4_step2(particleList, s, dt, ka1) ==
    LET particle == particleList[s]
        half == RMul(<<1, 2>>, dt)
        kv1 == particle.vel
        kp1 == particle.pos
        kv2 == VAdd(kv1, VScale(half, ka1))
        kp2 == VAdd(kp1, VScale(half, kv2))
    IN  The({rk4_step3(particleList, s, dt, ka1, ka2)
             : ka2 \in {acceleration(particleList, s, kp2)}})

\* rk4, lines 138-143 and on: the locals of rk4 at its return
rk4_locals(particleList, s, dt) ==
    LET particle == particleList[s]
        kp1 == particle.pos
    IN  The({rk4_step2(particleList, s, dt, ka1)
             : ka1 \in {acceleration(particleList, s, kp1)}})

\* rk4: <<new_pos, new_vel>>
rk4(particleList, s, dt) ==
    The({<<l.new_pos, l.new_vel>> : l \in {rk4_locals(particleList, s, dt)}})

\* read_args, the time step: `if args.timestep:` is false for no argument and
\* for the argument 0
NoArg == <<>>

read_args(timestep) ==
    IF timestep # NoArg /\ timestep # Zero
    THEN timestep
    ELSE RDiv(Q(XDAY), Q(10))

\* ------------------------------------------------------------- Euler script
\* Particle.__init__ of src/nbody.py: the position is taken as given
EulerParticle(init_pos, init_vel, mass, radius, index, colour) ==
    [position |-> init_pos,
     velocity |-> VScale(Q(km), init_vel),
     mass |-> RMul(mass, Q(M_sun)),
     radius |-> RMul(radius, Q(R_sun)),
     colour |-> colour,
     index |-> index]

\* Particle.distance_to
distance_to(self, other) ==
    LET x1 == self.position[1]
        x2 == other.position[1]
        y1 == self.position[2]
        y2 == other.position[2]
    IN  RSqrt(RAdd(RSquare(RSub(x2, x1)), RSquare(RSub(y2, y1))))

\* np.sin(np.arctan2(a, b)) in exact arithmetic; arctan2(0, 0) is 0
SinArctan2(a, b) ==
    IF IsLost(a) \/ IsLost(b) THEN Lost
    ELSE IF a = NaN \/ b = NaN THEN NaN
    ELSE IF a[2] = 0 /\ b[2] = 0 THEN Lost
    ELSE IF a[2] = 0 THEN Q(a[1])
    ELSE IF b[2] = 0 THEN Zero
    ELSE IF a = Zero THEN Zero
    ELSE RDiv(a, RSqrt(RAdd(RSquare(a), RSquare(b))))

\* np.cos(np.arctan2(a, b)) in exact arithmetic
CosArctan2(a, b) ==
    IF IsLost(a) \/ IsLost(b) THEN Lost
    ELSE IF a = NaN \/ b = NaN THEN NaN
    ELSE IF a[2] = 0 /\ b[2] = 0 THEN Lost
    ELSE IF a[2] = 0 THEN Zero
    ELSE IF b[2] = 0 THEN Q(b[1])
    ELSE IF a = Zero THEN (IF b[1] < 0 THEN Q(-1) ELSE Q(1))
    ELSE RDiv(b, RSqrt(RAdd(RSquare(a), RSquare(b))))

\* gravitation dividing the force by the mass of p2
RECURSIVE GravitationInnerOtherMass(_, _, _, _)
GravitationInnerOtherMass(particles, a, dt, k) ==
    IF k = 0 THEN particles[a].velocity
    ELSE LET v == GravitationInnerOtherMass(particles, a, dt, k - 1)
             p1 == particles[a]
             p2 == particles[k]
         IN  IF p1.index # p2.index
             THEN LET Ftop == RMul(RMul(Q(grav_constant), p1.mass), p2.mass)
                      Fbot == RSquare(distance_to(p1, p2))
                      F == RDiv(Ftop, Fbot)
                      deltaX == RSub(p2.position[1], p1.position[1])
                      deltaY == RSub(p2.position[2], p1.position[2])
                      Fx == RMul(F, SinArctan2(deltaX, deltaY))
                      Fy == RMul(F, CosArctan2(deltaX, deltaY))
                      ax == RDiv(Fx, p2.mass)
                      ay == RDiv(Fy, p2.mass)
                  IN  <<RAdd(v[1], RMul(ax, dt)), RAdd(v[2], RMul(ay, dt))>>
             ELSE v

\* the velocity of p1 after the inner loop of gravitation has passed
\* particles[1..k]
RECURSIVE GravitationInner(_, _, _, _)
GravitationInner(particles, a, dt, k) ==
    IF k = 0 THEN particles[a].velocity
    ELSE LET v == GravitationInner(particles, a, dt, k - 1)
             p1 == particles[a]
             p2 == particles[k]
         IN  IF p1.index # p2.index
             THEN LET Ftop == RMul(RMul(Q(grav_constant), p1.mass), p2.mass)
                      Fbot == RSquare(distance_to(p1, p2))
                      F == RDiv(Ftop, Fbot)
                      deltaX == RSub(p2.position[1], p1.position[1])
                      deltaY == RSub(p2.position[2], p1.position[2])
                      Fx == RMul(F, SinArctan2(deltaX, deltaY))
                      Fy == RMul(F, CosArctan2(deltaX, deltaY))
                      ax == RDiv(Fx, p1.mass)
                      ay == RDiv(Fy, p1.mass)
                  IN  <<RAdd(v[1], RMul(ax, dt)), RAdd(v[2], RMul(ay, dt))>>
             ELSE v

\* gravitation: no position changes, so each body's new velocity is computed
\* from the positions at the call
gravitation(particles, dt) ==
    [a \in 1..Len(particles) |->
        [particles[a] EXCEPT
            !.velocity = GravitationInner(particles, a, dt, Len(particles))]]

\* update_position building the moved body anew, through the constructor
update_position_rebuilt(particles, a, dt) ==
    LET self == particles[a]
    IN  [particles EXCEPT
            ![a] = EulerParticle(
                      <<RAdd(self.position[1], RMul(self.velocity[1], dt)),
                        RAdd(self.position[2], RMul(self.velocity[2], dt))>>,
                      VDiv(self.velocity, Q(km)), self.mass, self.radius,
                      self.index, self.colour)]

\* update_position moving by the velocity, not by velocity * dt
update_position_no_dt(particles, a, dt) ==
    LET self == particles[a]
    IN  [particles EXCEPT
            ![a].position = <<RAdd(self.position[1], self.velocity[1]),
                              RAdd(self.position[2], self.velocity[2])>>]

\* Particle.update_position of particles[a] (tracks = False)
update_position(particles, a, dt) ==
    LET self == particles[a]
        dx == RMul(self.velocity[1], dt)
        dy == RMul(self.velocity[2], dt)
    IN  [particles EXCEPT
            ![a].position = <<RAdd(self.position[1], dx),
                              RAdd(self.position[2], dy)>>]

\* the time step of the Euler script: `if args.timestep:`
euler_timestep(timestep) ==
    IF timestep # NoArg /\ timestep # Zero
    THEN timestep
    ELSE Q(DefaultTimeStep)

\* ------------------------------------------------------------- inputs
\* Largest --timestep argument; the arguments are -1..MaxTimestep and none.
MaxTimestep == 2

TimestepArgs == {NoArg} \cup {Q(k) : k \in -1..MaxTimestep}

\* the vector with c on one axis: the bodies start on a coordinate axis and
\* move along it, which keeps every distance rational
Along(axis, c, dim) ==
    IF dim = 2
    THEN <<IF axis = 1 THEN c ELSE Zero, IF axis = 2 THEN c ELSE Zero>>
    ELSE <<IF axis = 1 THEN c ELSE Zero, IF axis = 2 THEN c ELSE Zero,
           IF axis = 3 THEN c ELSE Zero>>

\* ------------------------------------------------------------- state
VARIABLES
    prog,          \* the script that runs: "euler" (nbody.py) or "rk4"
    particles,     \* nbody.py: the list particles
    time_step,     \* nbody.py: time_step
    cycle,         \* nbody.py: the cycle of the next pass of the loop
    j,             \* nbody.py: the j of the next pass of the loop
    current_time,  \* nbody.py: current_time
    Plist,         \* grav_nbody_rk4.py: Plist
    TIMESTEP,      \* grav_nbody_rk4.py: TIMESTEP
    time,          \* grav_nbody_rk4.py: time
    running,       \* grav_nbody_rk4.py: running
    i,             \* grav_nbody_rk4.py: the i of update_particles
    pc,            \* grav_nbody_rk4.py: the place in main
    display,       \* the window: the time it shows, and how far each body
                   \* had been advanced at the last draw and the last refresh
    adv,           \* history: the position updates applied to each body
    kicks,         \* history: the velocity updates of each body, this cycle
    start,         \* history: the body list when the current step began
    call,          \* history: the last call of rk4, its body and its list
    steps,         \* history: the whole steps completed
    initial,       \* history: the body list as constructed
    given          \* history: the arguments each body was constructed from

eulerVars == <<particles, time_step, cycle, j, current_time, kicks>>

rk4Vars == <<Plist, TIMESTEP, time, running, i, pc, call>>

vars == <<prog, particles, time_step, cycle, j, current_time, Plist, TIMESTEP,
          time, running, i, pc, display, adv, kicks, start, call, steps,
          initial, given>>

NoCall == [s |-> 0, before |-> <<>>]

\* no value of the list is beyond what the model carries
EulerCarried(list) ==
    \A a \in 1..Len(list) :
        VCarried(list[a].position) /\ VCarried(list[a].velocity)

\* nbody.py, lines 232-237: the bodies are constructed (and drawn), the loop
\* has not begun
EulerStart(n, axis, cs, vs, ms, dt) ==
    /\ prog = "euler"
    /\ particles = [b \in 1..n |->
            EulerParticle(Along(axis, Q(cs[b]), 2), Along(axis, Q(vs[b]), 2),
                          Q(ms[b]), Q(1), b - 1, b)]
    /\ time_step = dt
    /\ cycle = 0
    /\ j = 0
    /\ current_time = Zero
    /\ Plist = <<>>
    /\ TIMESTEP = Zero
    /\ time = Zero
    /\ running = FALSE
    /\ i = 0
    /\ pc = "off"
    /\ display = [text |-> NoArg,
                  drawn |-> [b \in 1..n |-> 0],
                  flipped |-> [b \in 1..n |-> 0]]
    /\ adv = [b \in 1..n |-> 0]
    /\ kicks = [b \in 1..n |-> 0]
    /\ start = particles
    /\ call = NoCall
    /\ steps = 0
    /\ initial = particles
    /\ given = [b \in 1..n |->
            [pos |-> Along(axis, Q(cs[b]), 2), vel |-> Along(axis, Q(vs[b]), 2),
             mass |-> Q(ms[b])]]

\* grav_nbody_rk4.py, lines 424-455: the display shows time 0, the bodies
\* are constructed, running is True
RK4Start(n, axis, cs, vs, ms, dt) ==
    /\ prog = "rk4"
    /\ Plist = [b \in 1..n |->
            Particle(Along(axis, Q(cs[b]), 3), Along(axis, Q(vs[b]), 3),
                     Q(ms[b]), 4, b)]
    /\ TIMESTEP = dt
    /\ time = Zero
    /\ running = TRUE
    /\ i = 0
    /\ pc = "while"
    /\ particles = <<>>
    /\ time_step = Zero
    /\ cycle = 0
    /\ j = 0
    /\ current_time = Zero
    /\ display = [text |-> Zero,
                  drawn |-> [b \in 1..n |-> 0],
                  flipped |-> [b \in 1..n |-> 0]]
    /\ adv = [b \in 1..n |-> 0]
    /\ kicks = [b \in 1..n |-> 0]
    /\ start = Plist
    /\ call = NoCall
    /\ steps = 0
    /\ initial = Plist
    /\ given = [b \in 1..n |->
            [pos |-> Along(axis, Q(cs[b]), 3), vel |-> Along(axis, Q(vs[b]), 3),
             mass |-> Q(ms[b])]]

\* bodies at pairwise distinct coordinates, with positive masses
Inputs(n, cs, vs, ms) ==
    /\ cs \in [1..n -> 0..MaxCoord]
    /\ vs \in [1..n -> -MaxVel..MaxVel]
    /\ ms \in [1..n -> 1..MaxMass]
    /\ \A a, b \in 1..n : a # b => cs[a] # cs[b]

\* the scripts as they are run: the time step comes from the command line
Init ==
    \E n \in 1..MaxBodies, axis \in 1..2, arg \in TimestepArgs :
        \E cs \in [1..n -> 0..MaxCoord], vs \in [1..n -> -MaxVel..MaxVel],
           ms \in [1..n -> 1..MaxMass] :
            /\ Inputs(n, cs, vs, ms)
            /\ \/ EulerStart(n, axis, cs, vs, ms, euler_timestep(arg))
               \/ RK4Start(n, axis, cs, vs, ms, read_args(arg))

\* the loops entered with any time step, 0 included
InitCall ==
    \E n \in 1..MaxBodies, axis \in 1..2, dt \in TimestepArgs \ {NoArg} :
        \E cs \in [1..n -> 0..MaxCoord], vs \in [1..n -> -MaxVel..MaxVel],
           ms \in [1..n -> 1..MaxMass] :
            /\ Inputs(n, cs, vs, ms)
            /\ \/ EulerStart(n, axis, cs, vs, ms, dt)
               \/ RK4Start(n, axis, cs, vs, ms, dt)

\* ------------------------------------------------------------- nbody.py
\* the loop with the forces of a whole cycle taken from the positions the
\* bodies had when the cycle began
EulerIterationSnapshot ==
    /\ prog = "euler"
    /\ cycle < max_cycles
    /\ cycle < MaxSteps
    /\ \E kicked \in {gravitation([b \in 1..Len(particles) |->
                          [particles[b] EXCEPT !.position =
                              IF j = 0 THEN @ ELSE start[b].position]],
                        time_step)} :
       \E moved \in {update_position([b \in 1..Len(particles) |->
                          [particles[b] EXCEPT !.velocity = kicked[b].velocity]],
                        j + 1, time_step)} :
        LET n == Len(particles)
            t == RDiv(RMul(Q(cycle), time_step), Q(year))
            last == j + 1 = n
            advanced == [adv EXCEPT ![j + 1] = @ + 1]
        IN  /\ EulerCarried(moved)
            /\ particles' = moved
            /\ current_time' = t
            /\ adv' = advanced
            /\ display' = [text |-> t, drawn |-> advanced, flipped |-> advanced]
            /\ kicks' = [b \in 1..n |->
                           (IF j = 0 THEN 0 ELSE kicks[b])
                           + (IF n > 1 THEN 1 ELSE 0)]
            /\ start' = IF j = 0 THEN particles ELSE start
            /\ j' = IF last THEN 0 ELSE j + 1
            /\ cycle' = IF last THEN cycle + 1 ELSE cycle
            /\ steps' = IF last THEN steps + 1 ELSE steps
    /\ UNCHANGED <<prog, initial, given, time_step, rk4Vars>>

\* one pass of the inner loop, lines 242-248: gravitation on the whole list,
\* the position of particles[j], the time display, the refresh
EulerIteration ==
    /\ prog = "euler"
    /\ cycle < max_cycles
    /\ cycle < MaxSteps
    /\ \E moved \in {update_position(gravitation(particles, time_step),
                                     j + 1, time_step)} :
        LET n == Len(particles)
            t == RDiv(RMul(Q(cycle), time_step), Q(year))
            last == j + 1 = n
            advanced == [adv EXCEPT ![j + 1] = @ + 1]
        IN  /\ EulerCarried(moved)
            /\ particles' = moved
            /\ current_time' = t
            /\ adv' = advanced
            /\ display' = [text |-> t, drawn |-> advanced, flipped |-> advanced]
            /\ kicks' = [b \in 1..n |->
                           (IF j = 0 THEN 0 ELSE kicks[b])
                           + (IF n > 1 THEN 1 ELSE 0)]
            /\ start' = IF j = 0 THEN particles ELSE start
            /\ j' = IF last THEN 0 ELSE j + 1
            /\ cycle' = IF last THEN cycle + 1 ELSE cycle
            /\ steps' = IF last THEN steps + 1 ELSE steps
    /\ UNCHANGED <<prog, initial, given, time_step, rk4Vars>>

\* ------------------------------------------------------------- RK4 main
\* lines 456-458: the loop goes on; the display is refreshed, time advances
RK4Loop ==
    /\ prog = "rk4"
    /\ pc = "while"
    /\ running
    /\ steps < MaxSteps
    /\ display' = [display EXCEPT !.flipped = adv]
    /\ time' = RAdd(time, RDiv(TIMESTEP, Q(XYR)))
    /\ i' = 1
    /\ pc' = "update"
    /\ start' = Plist
    /\ UNCHANGED <<prog, initial, given, eulerVars, Plist, TIMESTEP, running, adv, call, steps>>

\* line 456: running is False, the loop is left
RK4Exit ==
    /\ prog = "rk4"
    /\ pc = "while"
    /\ ~running
    /\ pc' = "done"
    /\ UNCHANGED <<prog, initial, given, eulerVars, Plist, TIMESTEP, time, running, i, call,
                   display, adv, start, steps>>

\* update_particles, one pass of its loop: rk4 for Plist[i], then its draw
update_particles ==
    /\ prog = "rk4"
    /\ pc = "update"
    /\ \E r \in {rk4(Plist, i, TIMESTEP)} :
        LET n == Len(Plist)
            list == [Plist EXCEPT ![i].pos = r[1], ![i].vel = r[2]]
            advanced == [adv EXCEPT ![i] = @ + 1]
        IN  /\ VCarried(r[1])
            /\ VCarried(r[2])
            /\ Plist' = list
            /\ adv' = advanced
            /\ display' = [display EXCEPT !.drawn = advanced]
            /\ call' = [s |-> i, before |-> Plist]
            /\ i' = i + 1
            /\ pc' = IF i = n THEN "display" ELSE "update"
            /\ steps' = IF i = n THEN steps + 1 ELSE steps
    /\ UNCHANGED <<prog, initial, given, eulerVars, TIMESTEP, time, running, start>>

\* lines 461-462: time_display and draw_axes
RK4Display ==
    /\ prog = "rk4"
    /\ pc = "display"
    /\ display' = [display EXCEPT !.text = time]
    /\ pc' = "events"
    /\ UNCHANGED <<prog, initial, given, eulerVars, Plist, TIMESTEP, time, running, i, call,
                   adv, start, steps>>

\* the events read after every pass of update_particles as well
RK4EventsInUpdate ==
    /\ prog = "rk4"
    /\ pc \in {"events", "update"}
    /\ \E quit \in BOOLEAN :
        /\ running' = (running /\ ~quit)
        /\ pc' = IF pc = "events" \/ quit THEN "while" ELSE pc
    /\ UNCHANGED <<prog, initial, given, eulerVars, Plist, TIMESTEP, time, i, call,
                   display, adv, start, steps>>

\* lines 465-467: the events are read; a QUIT among them clears running
RK4Events ==
    /\ prog = "rk4"
    /\ pc = "events"
    /\ \E quit \in BOOLEAN : running' = (running /\ ~quit)
    /\ pc' = "while"
    /\ UNCHANGED <<prog, initial, given, eulerVars, Plist, TIMESTEP, time, i, call, display,
                   adv, start, steps>>

Next ==
    \/ EulerIteration
    \/ RK4Loop
    \/ RK4Exit
    \/ update_particles
    \/ RK4Display
    \/ RK4Events

Spec == Init /\ [][Next]_vars

SpecCall == InitCall /\ [][Next]_vars

\* ------------------------------------------------------------- claims
Uniform(f) == \A a, b \in DOMAIN f : f[a] = f[b]

\* the time step of the script that runs
TimeStep == IF prog = "euler" THEN time_step ELSE TIMESTEP

\* the body list of the script that runs
Bodies == IF prog = "euler" THEN particles ELSE Plist

\* the acceleration the contract of Particle.acceleration states: the sum
\* over every other body o of G * o.mass / dist^2 * (delta / dist), with
\* delta = o.position - p and dist = |delta|
RECURSIVE ContractAcceleration(_, _, _, _)
ContractAcceleration(list, s, p, k) ==
    IF k = 0 THEN zeros3
    ELSE IF k = s THEN ContractAcceleration(list, s, p, k - 1)
    ELSE The({VAdd(ContractAcceleration(list, s, p, k - 1),
                   VScale(RDiv(RMul(Q(XG), list[k].mas), RSquare(dist)),
                          VDiv(delta, dist)))
              : delta \in {VSub(list[k].pos, p)},
                dist \in {VNorm(VSub(list[k].pos, p))}})

\* C1: wherever rk4 has asked for the acceleration of a body at a candidate
\* position (kp1, kp2, kp3 of its last call), the answer was the contract's
\* sum, with every distance measured from the candidate position.
C1_AccelerationAtCandidate ==
    call.s # 0 =>
        \E l \in {rk4_locals(call.before, call.s, TIMESTEP)} :
            \A k \in 1..3 :
                \E want \in {ContractAcceleration(call.before, call.s, l.kp[k],
                                                  Len(call.before))} :
                    VCarried(want) => l.ka[k] = want

\* C2: the position and velocity that the last call of rk4 has stored are
\* v0 + (dt/6)(ka1 + 2 ka2 + 2 ka3 + ka4) and p0 + (dt/6)(kv1 + 2 kv2 +
\* 2 kv3 + kv4), with the stages as the claim lists them: ka1..ka3 are the
\* acceleration at kp1..kp3, and ka4 is the acceleration at kp3.
C2_RK4Formula ==
    call.s # 0 =>
        LET list == call.before
            s == call.s
            dt == TIMESTEP
            p0 == list[s].pos
            v0 == list[s].vel
            half == RMul(<<1, 2>>, dt)
        IN  \E ka1 \in {acceleration(list, s, p0)} :
            \E kv2 \in {VAdd(v0, VScale(half, ka1))} :
            \E kp2 \in {VAdd(p0, VScale(half, kv2))} :
            \E ka2 \in {acceleration(list, s, kp2)} :
            \E kv3 \in {VAdd(v0, VScale(half, ka2))} :
            \E kp3 \in {VAdd(p0, VScale(half, kv3))} :
            \E ka3 \in {acceleration(list, s, kp3)} :
            \E kv4 \in {VAdd(v0, VScale(dt, ka3))} :
            \E ka4 \in {acceleration(list, s, kp3)} :
            \E new_vel \in {VAdd(v0, VScale(RDiv(dt, Q(6)),
                    VAdd(VAdd(VAdd(ka1, VScale(Q(2), ka2)),
                              VScale(Q(2), ka3)), ka4)))} :
            \E new_pos \in {VAdd(p0, VScale(RDiv(dt, Q(6)),
                    VAdd(VAdd(VAdd(v0, VScale(Q(2), kv2)),
                              VScale(Q(2), kv3)), kv4)))} :
                (VCarried(new_vel) /\ VCarried(new_pos))
                    => (Plist[s].vel = new_vel /\ Plist[s].pos = new_pos)

\* rk4 has run for a body that has a neighbour, and has changed its velocity
C2_Witness ==
    /\ call.s # 0
    /\ Len(Plist) > 1
    /\ VFinite(Plist[call.s].vel)
    /\ Plist[call.s].vel # call.before[call.s].vel
    /\ Plist[call.s].pos # call.before[call.s].pos

\* C3: when a cycle of the Euler loop is complete, every body has had one
\* velocity update, and its position is the position it had when the cycle
\* began plus its updated velocity times dt.
C3_OneUpdatePerStep ==
    (prog = "euler" /\ j = 0 /\ steps > 0) =>
        \A b \in 1..Len(particles) :
            /\ kicks[b] <= 1
            /\ \E want \in {VAdd(start[b].position,
                                 VScale(time_step, particles[b].velocity))} :
                   VCarried(want) => particles[b].position = want

\* C4: no body is advanced with a time step that is not positive or a mass
\* that is not positive.
C4_InvalidConfigurationRejected ==
    (\E b \in DOMAIN adv : adv[b] > 0) =>
        /\ TimeStep[1] > 0
        /\ prog = "euler" => \A b \in 1..Len(particles) : particles[b].mass[1] > 0
        /\ prog = "rk4" => \A b \in 1..Len(Plist) : Plist[b].mas[1] > 0

\* C5: in the RK4 loop the QUIT event is seen only between whole steps, with
\* every body advanced equally often; seeing it changes no body; once it is
\* seen no body is advanced again; and the loop is left with every body
\* advanced once per completed step.
C5_QuitAtStepBoundary ==
    [][prog = "rk4" =>
        /\ (running /\ ~running') =>
              (pc = "events" /\ Uniform(adv) /\ Plist' = Plist)
        /\ ~running => (Plist' = Plist /\ adv' = adv /\ pc' # "update")
        /\ pc' = "done" =>
              (~running' /\ \A b \in DOMAIN adv' : adv'[b] = steps')]_vars

\* the loop was left on a QUIT event after at least one whole step
C5_Witness == pc = "done" /\ steps >= 1 /\ Len(Plist) > 1 /\ Plist # initial

\* C6: between steps, the elapsed time held and shown by either loop is the
\* number of completed steps times dt, in years.
C6_ElapsedTime ==
    /\ (prog = "rk4" /\ pc \in {"while", "events", "done"}) =>
          /\ time = RDiv(RMul(Q(steps), TIMESTEP), Q(XYR))
          /\ display.text = time
    /\ (prog = "euler" /\ j = 0 /\ steps > 0) =>
          /\ current_time = RDiv(RMul(Q(steps), time_step), Q(year))
          /\ display.text = current_time

\* C7: whenever a body was last drawn, and whenever the display was last
\* refreshed, every body of the list had been advanced equally often.
C7_RenderAfterStep == Uniform(display.drawn) /\ Uniform(display.flipped)

\* the sum of mass * velocity over particles[1..k] (Euler script)
RECURSIVE EulerMomentum(_, _)
EulerMomentum(list, k) ==
    IF k = 0 THEN <<Zero, Zero>>
    ELSE VAdd(EulerMomentum(list, k - 1),
              VScale(list[k].mass, list[k].velocity))

\* the sum of mass * velocity over Plist[1..k] (RK4 script)
RECURSIVE RK4Momentum(_, _)
RK4Momentum(list, k) ==
    IF k = 0 THEN zeros3
    ELSE VAdd(RK4Momentum(list, k - 1), VScale(list[k].mas, list[k].vel))

Momentum(list) ==
    IF prog = "euler"
    THEN EulerMomentum(list, Len(list))
    ELSE RK4Momentum(list, Len(list))

\* both loops are between whole steps
BetweenSteps ==
    IF prog = "euler" THEN j = 0 ELSE pc \in {"while", "display", "events", "done"}

\* no force has been evaluated between two bodies at the same position: a
\* zero distance leaves a velocity that is not finite, for good
NeverCoincident ==
    IF prog = "euler"
    THEN \A b \in 1..Len(particles) : VFinite(particles[b].velocity)
    ELSE \A b \in 1..Len(Plist) : VFinite(Plist[b].vel)

\* C8, as stated: between steps of either loop, over bodies that were at
\* distinct positions whenever a force was evaluated, the total momentum is
\* the total momentum of the bodies as constructed.
C8_MomentumBothLoops ==
    (BetweenSteps /\ NeverCoincident) =>
        \E m \in {Momentum(Bodies)} :
            VCarried(m) => m = Momentum(initial)

\* C8, amended: between steps of the Euler loop, over bodies that were at
\* distinct positions whenever a force was evaluated, the total momentum is
\* the total momentum of the bodies as constructed.
C8_MomentumEuler ==
    (prog = "euler" /\ BetweenSteps /\ NeverCoincident) =>
        \E m \in {Momentum(Bodies)} :
            VCarried(m) => m = Momentum(initial)

\* the Euler loop has completed a step in which two bodies of different
\* mass have changed their velocities
C8_Witness ==
    /\ prog = "euler"
    /\ j = 0
    /\ steps >= 1
    /\ Len(particles) = 2
    /\ particles[1].mass # particles[2].mass
    /\ particles[1].velocity # initial[1].velocity
    /\ particles[2].velocity # initial[2].velocity
    /\ VFinite(particles[1].velocity)
    /\ VCarried(Momentum(particles))

\* C9: with dt = 0, every body keeps the position and the velocity it was
\* constructed with, in either loop.
C9_ZeroStepNoOp ==
    TimeStep = Zero =>
        /\ prog = "euler" =>
              \A b \in 1..Len(particles) :
                  /\ particles[b].position = initial[b].position
                  /\ particles[b].velocity = initial[b].velocity
        /\ prog = "rk4" =>
              \A b \in 1..Len(Plist) :
                  /\ Plist[b].pos = initial[b].pos
                  /\ Plist[b].vel = initial[b].vel

\* a whole step with dt = 0 over two bodies, one of them moving
C9_Witness ==
    /\ TimeStep = Zero
    /\ steps >= 1
    /\ Len(Bodies) = 2
    /\ prog = "euler"
    /\ particles[1].velocity # <<Zero, Zero>>

\* C10: a body that is alone in its list keeps the velocity it was
\* constructed with, in either loop.
C10_SingleBodyVelocity ==
    Len(Bodies) = 1 =>
        IF prog = "euler"
        THEN particles[1].velocity = initial[1].velocity
        ELSE Plist[1].vel = initial[1].vel

\* a body alone in its list has been moved by two whole steps
C10_Witness ==
    /\ Len(Bodies) = 1
    /\ steps >= 2
    /\ prog = "rk4"
    /\ Plist[1].pos # initial[1].pos

\* every body has been constructed and none has been advanced
Constructed == \A b \in DOMAIN adv : adv[b] = 0

\* C11: a body that has just been constructed holds its position argument
\* times the metres of a solar radius and its velocity argument times the
\* metres of a kilometre, and every body holds, in every state, its mass
\* argument times the kilograms of a solar mass; in both Particle classes.
C11_UnitsConvertedOnce ==
    /\ prog = "euler" =>
          \A b \in 1..Len(particles) :
              /\ particles[b].mass = RMul(given[b].mass, Q(M_sun))
              /\ Constructed =>
                    /\ particles[b].position = VScale(Q(R_sun), given[b].pos)
                    /\ particles[b].velocity = VScale(Q(km), given[b].vel)
    /\ prog = "rk4" =>
          \A b \in 1..Len(Plist) :
              /\ Plist[b].mas = RMul(given[b].mass, Q(XMSUN))
              /\ Constructed =>
                    /\ Plist[b].pos = VScale(Q(XRSUN), given[b].pos)
                    /\ Plist[b].vel = VScale(Q(XKM), given[b].vel)

\* the latest call of rk4 and the list `start` belong to the same step
CallInStep == call.s # 0 /\ ~(pc = "update" /\ i = 1)

\* C12: the list that rk4 read for body s held, for every other body, the
\* position that body had when the step (the update_particles call) began.
C12_PreStepNeighbours ==
    CallInStep =>
        \A k \in 1..Len(call.before) :
            k # call.s => call.before[k].pos = start[k].pos

\* the velocity increments of body a from list[1..k], each computed from the
\* positions in list alone: G * m_k / dist^2 * (delta / dist) * dt, with
\* delta = list[k].position - list[a].position
RECURSIVE KickFromPositions(_, _, _, _)
KickFromPositions(list, a, dt, k) ==
    IF k = 0 THEN <<Zero, Zero>>
    ELSE IF k = a THEN KickFromPositions(list, a, dt, k - 1)
    ELSE The({VAdd(KickFromPositions(list, a, dt, k - 1),
                   VScale(RMul(RDiv(RMul(Q(grav_constant), list[k].mass),
                                    RSquare(dist)), dt),
                          VDiv(delta, dist)))
              : delta \in {VSub(list[k].position, list[a].position)},
                dist \in {VNorm(VSub(list[k].position, list[a].position))}})

\* C13: whenever the Euler loop changes the list, it advances the next body
\* b in list order; every body before b has been moved once more than b and
\* every body after b is where it was when the cycle began; every velocity
\* receives the kick computed from the positions of that moment (where no
\* two bodies coincide), and b moves by its new velocity times dt.
C13_SequentialMutate ==
    [][(prog = "euler" /\ particles' # particles) =>
        LET b == j + 1
            n == Len(particles)
        IN  /\ adv' = [adv EXCEPT ![b] = @ + 1]
            /\ \A a \in 1..n :
                  /\ a < b => adv[a] = adv[b] + 1
                  /\ a > b =>
                        (adv[a] = adv[b]
                         /\ (b > 1 => particles[a].position = start[a].position))
                  /\ a # b => particles'[a].position = particles[a].position
                  /\ \E kick \in {KickFromPositions(particles, a, time_step, n)} :
                        VFinite(kick) =>
                            particles'[a].velocity
                                = VAdd(particles[a].velocity, kick)
            /\ particles'[b].position
                  = VAdd(particles[b].position,
                         VScale(time_step, particles'[b].velocity))]_vars

\* a second body has been advanced after the first was moved, under forces
\* that depend on that move
C13_Witness ==
    /\ prog = "euler"
    /\ Len(particles) = 2
    /\ j = 0
    /\ steps >= 1
    /\ particles[1].position # start[1].position
    /\ particles[2].position # start[2].position
    /\ VFinite(particles[2].velocity)
    /\ particles[2].velocity # initial[2].velocity

\* C14: in every state the list has the bodies it was constructed with, in
\* the same order, and each has the mass, radius, colour and identity it
\* was constructed with.
C14_OnlyPositionsAndVelocitiesChange ==
    /\ Len(Bodies) = Len(initial)
    /\ prog = "euler" =>
          \A b \in 1..Len(particles) :
              /\ particles[b].mass = initial[b].mass
              /\ particles[b].radius = initial[b].radius
              /\ particles[b].colour = initial[b].colour
              /\ particles[b].index = initial[b].index
    /\ prog = "rk4" =>
          \A b \in 1..Len(Plist) :
              /\ Plist[b].mas = initial[b].mas
              /\ Plist[b].rad = initial[b].rad
              /\ Plist[b].col = initial[b].col

\* two whole steps have moved both bodies of a list and changed their
\* velocities
C14_Witness ==
    /\ steps >= 2
    /\ Len(Bodies) = 2
    /\ \A b \in 1..2 :
          IF prog = "euler"
          THEN /\ particles[b].position # initial[b].position
               /\ particles[b].velocity # initial[b].velocity
          ELSE /\ Plist[b].pos # initial[b].pos
               /\ Plist[b].vel # initial[b].vel
====
